---- MODULE Spec2Model ----
(***************************************************************************)
(* DressGuardAI violation logging pipeline: utils/violation_logger.py      *)
(* (class ViolationLogger) together with the ledger calls that the webcam  *)
(* loop of main.py makes on the global logger instance.                    *)
(*                                                                         *)
(* Threads: callers of save_violation, the two threads of the logger's     *)
(* ThreadPoolExecutor, and the control endpoints.  Every `with self.lock`  *)
(* block is one atomic step; the code between two such blocks is a         *)
(* separate step, so callers and workers interleave where the code lets    *)
(* them.                                                                   *)
(*                                                                         *)
(* Abstractions: time.time() is the integer clock `now` (seconds);         *)
(* date.today() is the integer `today`; an evidence file path is the       *)
(* natural number of the write that produced it (the millisecond           *)
(* timestamps of two evidence writes are taken to differ); the 16 hex      *)
(* digits of the md5 digest are taken to be injective on the hashed        *)
(* string, so a cooldown key is the hashed string itself.                  *)
(***************************************************************************)
EXTENDS Integers, Sequences, FiniteSets, TLC

(***************************************************************************)
(* Program constants                                                       *)
(***************************************************************************)
max_pending_tasks == 3
max_workers == 2
DefaultCooldown == 10
min_face_confidence == 47
CleanupInterval == 5
MinCooldown == 1
\* The clock is observed every TickStep seconds
TickStep == CleanupInterval

(***************************************************************************)
(* Bounds of the model                                                     *)
(***************************************************************************)
NumCallers == 2
MaxTasks == 4
MaxTime == 10
MaxDay == 1
MaxFaces == 1
MaxItems == 2

Known == {"Alice"}
Names == Known \cup {"Unknown"}
ItemNames == {"shorts", "t-shirt"}
Confidences == {min_face_confidence - 1, min_face_confidence}
CooldownInputs == {0}
NoPath == 0

(***************************************************************************)
(* Python helpers                                                          *)
(***************************************************************************)
\* The strings of the model in the order of Python's str comparison.
StrOrder == <<"Alice", "Bob", "Unknown", "shorts", "t-shirt">>

Rank(s) == CHOOSE i \in 1..Len(StrOrder) : StrOrder[i] = s

Range(s) == {s[i] : i \in 1..Len(s)}

SeqsUpTo(S, n) == UNION {[1..k -> S] : k \in 0..n}

RECURSIVE Insert(_, _)
Insert(x, s) ==
    IF s = <<>> THEN <<x>>
    ELSE IF Rank(x) < Rank(Head(s)) THEN <<x>> \o s
    ELSE <<Head(s)>> \o Insert(x, Tail(s))

\* sorted(list)
RECURSIVE Sorted(_)
Sorted(s) == IF s = <<>> THEN <<>> ELSE Insert(Head(s), Sorted(Tail(s)))

\* sep.join(list)
RECURSIVE Join(_, _)
Join(s, sep) ==
    IF s = <<>> THEN ""
    ELSE IF Len(s) = 1 THEN s[1]
    ELSE s[1] \o sep \o Join(Tail(s), sep)

\* The name list unfiltered: 'Unknown' is taken for a person
AllNames(s) == s

\* [name for name in s if name != 'Unknown']
RECURSIVE NotUnknown(_)
NotUnknown(s) ==
    IF s = <<>> THEN <<>>
    ELSE IF Head(s) /= "Unknown" THEN <<Head(s)>> \o NotUnknown(Tail(s))
    ELSE NotUnknown(Tail(s))

\* del d[k]
Without(f, k) == [x \in DOMAIN f \ {k} |-> f[x]]

\* d[k] = v
With(f, k, v) == [x \in DOMAIN f \cup {k} |-> IF x = k THEN v ELSE f[x]]

Max(a, b) == IF a >= b THEN a ELSE b

Faces == [name : Names, confidence : Confidences]
FaceInputs == SeqsUpTo(Faces, MaxFaces)
\* check_compliance returns the names without duplicates, and the webcam loop
\* calls save_violation for non-compliant frames only
ItemInputs == {s \in SeqsUpTo(ItemNames, MaxItems) :
                 s /= <<>> /\ Cardinality(Range(s)) = Len(s)}

(***************************************************************************)
(* State                                                                   *)
(***************************************************************************)
VARIABLES
    logging_enabled,    \* self.logging_enabled
    cooldown_seconds,   \* self.cooldown_seconds
    recent_violations,  \* self.recent_violations: violation hash -> timestamp
    last_cleanup_time,  \* self.last_cleanup_time
    logged_today,       \* self.logged_today: person -> [date, items, filepath]
    daily_logs_file,    \* content of daily_logs.json
    disk,               \* evidence image files that exist in the log folder
    pending_tasks,      \* self.pending_tasks
    calls,              \* save_violation calls past the locked block: [pc, task]
    queue,              \* work queue of self.executor (FIFO)
    running,            \* tasks on the executor's threads: [pc, task, written]
    futures,            \* futures of the submitted tasks: [done, cb]
    ntasks,             \* number of calls admitted so far
    abandoned,          \* number of admitted calls that raised before submitting
    ret,                \* what the call made last on the logger returned
    now,                \* time.time()
    today,              \* date.today()
    logged_persons      \* main.py: logged_persons of generate_webcam_frames

vars == <<logging_enabled, cooldown_seconds, recent_violations, last_cleanup_time,
          logged_today, daily_logs_file, disk, pending_tasks, calls, queue,
          running, futures, ntasks, abandoned, ret, now, today,
          logged_persons>>

EmptyMap == [x \in {} |-> 0]

(***************************************************************************)
(* Daily ledger                                                            *)
(***************************************************************************)
\* _is_person_logged_today without the comparison of dates
IsPersonLoggedAnyDay(lt, person_name, day) ==
    [result |-> person_name \in DOMAIN lt, lt |-> lt]

\* _is_person_logged_today: the answer and the ledger after the lazy expiry
_is_person_logged_today(lt, person_name, day) ==
    IF person_name \in DOMAIN lt /\ lt[person_name].date /= day
    THEN [result |-> FALSE, lt |-> Without(lt, person_name)]
    ELSE [result |-> person_name \in DOMAIN lt, lt |-> lt]

\* _has_different_violations comparing the lists instead of the sets
HasDifferentViolationsAsLists(lt, person_name, current_items) ==
    IF person_name \notin DOMAIN lt THEN TRUE
    ELSE lt[person_name].items /= current_items

\* _has_different_violations
_has_different_violations(lt, person_name, current_items) ==
    IF person_name \notin DOMAIN lt THEN TRUE
    ELSE Range(lt[person_name].items) /= Range(Sorted(current_items))

\* _mark_person_logged_today, without the save
_mark_person_logged_today(lt, person_name, items, filepath, day) ==
    With(lt, person_name,
         [date |-> day, items |-> Sorted(items), filepath |-> filepath])

\* for person_name in persons: self._mark_person_logged_today(...)
RECURSIVE MarkAll(_, _, _, _, _)
MarkAll(lt, persons, items, filepath, day) ==
    IF persons = <<>> THEN lt
    ELSE MarkAll(_mark_person_logged_today(lt, Head(persons), items, filepath, day),
                 Tail(persons), items, filepath, day)

\* _delete_previous_log giving up when os.remove raises
DeleteGivesUpOnError(lt, dk, person_name, rmfail) ==
    IF person_name \notin DOMAIN lt THEN [lt |-> lt, disk |-> dk, saved |-> FALSE]
    ELSE LET filepath == lt[person_name].filepath
         IN  IF filepath /= NoPath /\ filepath \in dk /\ filepath \in rmfail
             THEN [lt |-> lt, disk |-> dk, saved |-> FALSE]
             ELSE [lt |-> Without(lt, person_name), disk |-> dk \ {filepath},
                   saved |-> TRUE]

\* _delete_previous_log: ledger and disk afterwards; os.remove raises for the
\* files in rmfail, which the code logs and swallows
_delete_previous_log(lt, dk, person_name, rmfail) ==
    IF person_name \notin DOMAIN lt THEN [lt |-> lt, disk |-> dk, saved |-> FALSE]
    ELSE LET filepath == lt[person_name].filepath
         IN  [lt |-> Without(lt, person_name),
              disk |-> IF filepath /= NoPath /\ filepath \in dk
                          /\ filepath \notin rmfail
                       THEN dk \ {filepath} ELSE dk,
              saved |-> TRUE]

\* for person_name in persons: self._delete_previous_log(person_name)
RECURSIVE DeleteAll(_, _, _, _)
DeleteAll(lt, dk, persons, rmfail) ==
    IF persons = <<>> THEN [lt |-> lt, disk |-> dk, saved |-> FALSE]
    ELSE LET d == _delete_previous_log(lt, dk, Head(persons), rmfail)
             r == DeleteAll(d.lt, d.disk, Tail(persons), rmfail)
         IN  [lt |-> r.lt, disk |-> r.disk, saved |-> d.saved \/ r.saved]

(***************************************************************************)
(* Deduplication                                                           *)
(***************************************************************************)
\* The faces passed on as they came, the floor not applied
FilterFacesSkipped(face_results) == face_results

\* _filter_faces_by_confidence
_filter_faces_by_confidence(face_results) ==
    [i \in 1..Len(face_results) |->
        IF face_results[i].confidence < min_face_confidence
        THEN [name |-> "Unknown", confidence |-> face_results[i].confidence]
        ELSE face_results[i]]

FaceNames(faces) == [i \in 1..Len(faces) |-> faces[i].name]

\* _generate_violation_hash, on the names of the faces
_generate_violation_hash(names, non_compliant_items) ==
    Join(Sorted(names), "-") \o ":" \o Join(Sorted(non_compliant_items), "-")

\* _cleanup_old_violations emptying the cache at every call
CleanupDropsAll(rv, lct, t, cd) == [rv |-> EmptyMap, lct |-> t]

\* _cleanup_old_violations
_cleanup_old_violations(rv, lct, current_time, cd) ==
    IF current_time - lct < CleanupInterval THEN [rv |-> rv, lct |-> lct]
    ELSE LET expired_keys == {key \in DOMAIN rv : current_time - rv[key] > cd}
         IN  [rv |-> [key \in DOMAIN rv \ expired_keys |-> rv[key]],
              lct |-> current_time]

\* The loop returning only for a person logged with the same items: a changed
\* violation goes on to the cooldown check
RECURSIVE DailyLimitSameOnly(_, _, _, _)
DailyLimitSameOnly(lt, persons, items, day) ==
    IF persons = <<>> THEN [hit |-> FALSE, log |-> FALSE, reason |-> "", lt |-> lt]
    ELSE LET chk == _is_person_logged_today(lt, Head(persons), day)
         IN  IF chk.result /\ ~_has_different_violations(chk.lt, Head(persons), items)
             THEN [hit |-> TRUE, log |-> FALSE,
                   reason |-> "Already logged today: " \o Head(persons),
                   lt |-> chk.lt]
             ELSE DailyLimitSameOnly(chk.lt, Tail(persons), items, day)

\* The loop of _should_log_violation over identified_persons: hit = a return
\* was taken inside the loop
RECURSIVE DailyLimit(_, _, _, _)
DailyLimit(lt, persons, items, day) ==
    IF persons = <<>> THEN [hit |-> FALSE, log |-> FALSE, reason |-> "", lt |-> lt]
    ELSE LET chk == _is_person_logged_today(lt, Head(persons), day)
         IN  IF chk.result
             THEN IF _has_different_violations(chk.lt, Head(persons), items)
                  THEN [hit |-> TRUE, log |-> TRUE,
                        reason |-> "Different violations detected - updating",
                        lt |-> chk.lt]
                  ELSE [hit |-> TRUE, log |-> FALSE,
                        reason |-> "Already logged today: " \o Head(persons),
                        lt |-> chk.lt]
             ELSE DailyLimit(chk.lt, Tail(persons), items, day)

\* The cooldown check with the end of the window inside the window
CooldownActiveInclusive(rv, violation_hash, current_time, cd) ==
    /\ violation_hash \in DOMAIN rv
    /\ current_time - rv[violation_hash] <= cd

\* The cooldown check at the end of _should_log_violation
CooldownActive(rv, violation_hash, current_time, cd) ==
    /\ violation_hash \in DOMAIN rv
    /\ current_time - rv[violation_hash] < cd

\* The enabled check left out
LoggingOffUnchecked(enabled) == FALSE

\* `if not self.logging_enabled`
LoggingOff(enabled) == ~enabled

\* The no-face check left out
NoFacesUnchecked(face_results) == FALSE

\* `if not face_results`
NoFaces(face_results) == face_results = <<>>

\* _should_log_violation stamping the record of a call that the cooldown
\* refuses: the window would run from the last sighting
ShouldLogRefreshing(names, items, enabled, lt, rv, lct, cd, t, day) ==
    IF LoggingOff(enabled)
    THEN [log |-> FALSE, reason |-> "Logging disabled", del |-> FALSE,
          lt |-> lt, rv |-> rv, lct |-> lct]
    ELSE IF NoFaces(names)
    THEN [log |-> FALSE, reason |-> "No faces detected", del |-> FALSE,
          lt |-> lt, rv |-> rv, lct |-> lct]
    ELSE LET cl == _cleanup_old_violations(rv, lct, t, cd)
             dl == DailyLimit(lt, NotUnknown(names), items, day)
             violation_hash == _generate_violation_hash(names, items)
         IN  IF dl.hit
             THEN [log |-> dl.log, reason |-> dl.reason, del |-> dl.log,
                   lt |-> dl.lt, rv |-> cl.rv, lct |-> cl.lct]
             ELSE IF CooldownActive(cl.rv, violation_hash, t, cd)
             THEN [log |-> FALSE, reason |-> "Cooldown active", del |-> FALSE,
                   lt |-> dl.lt, rv |-> With(cl.rv, violation_hash, t),
                   lct |-> cl.lct]
             ELSE [log |-> TRUE, reason |-> "Logging approved", del |-> FALSE,
                   lt |-> dl.lt, rv |-> With(cl.rv, violation_hash, t),
                   lct |-> cl.lct]

\* _should_log_violation: (should_log, reason, should_delete_previous) and the
\* state it leaves
_should_log_violation(names, items, enabled, lt, rv, lct, cd, t, day) ==
    IF LoggingOff(enabled)
    THEN [log |-> FALSE, reason |-> "Logging disabled", del |-> FALSE,
          lt |-> lt, rv |-> rv, lct |-> lct]
    ELSE IF NoFaces(names)
    THEN [log |-> FALSE, reason |-> "No faces detected", del |-> FALSE,
          lt |-> lt, rv |-> rv, lct |-> lct]
    ELSE LET cl == _cleanup_old_violations(rv, lct, t, cd)
             dl == DailyLimit(lt, NotUnknown(names), items, day)
             violation_hash == _generate_violation_hash(names, items)
         IN  IF dl.hit
             THEN [log |-> dl.log, reason |-> dl.reason, del |-> dl.log,
                   lt |-> dl.lt, rv |-> cl.rv, lct |-> cl.lct]
             ELSE IF CooldownActive(cl.rv, violation_hash, t, cd)
             THEN [log |-> FALSE, reason |-> "Cooldown active", del |-> FALSE,
                   lt |-> dl.lt, rv |-> cl.rv, lct |-> cl.lct]
             ELSE [log |-> TRUE, reason |-> "Logging approved", del |-> FALSE,
                   lt |-> dl.lt, rv |-> With(cl.rv, violation_hash, t),
                   lct |-> cl.lct]

\* The callback decrementing nothing
OnTaskCompleteLost(pending) == pending

\* _on_task_complete
_on_task_complete(pending) == pending - 1

\* The admission check with > for >=
QueueFullStrict(pending) == pending > max_pending_tasks

\* The admission check of save_violation
QueueFull(pending) == pending >= max_pending_tasks

(***************************************************************************)
(* Initial state: the logger as the module constructs it at import         *)
(***************************************************************************)
NoRet == [result |-> "none", reason |-> ""]

Init ==
    /\ logging_enabled = FALSE
    /\ cooldown_seconds = DefaultCooldown
    /\ recent_violations = EmptyMap
    /\ last_cleanup_time = 0
    /\ logged_today = EmptyMap
    /\ daily_logs_file = EmptyMap
    /\ disk = {}
    /\ pending_tasks = 0
    /\ calls = {}
    /\ queue = <<>>
    /\ running = {}
    /\ futures = EmptyMap
    /\ ntasks = 0
    /\ abandoned = 0
    /\ ret = NoRet
    /\ now = 0
    /\ today = 0
    /\ logged_persons = {}

(***************************************************************************)
(* save_violation                                                          *)
(***************************************************************************)
\* Lines 314-335 of save_violation: the enabled check, the confidence filter
\* and the locked block (decision, queue check, increment), as the values the
\* block leaves.  A refused call returns False here; an admitted call goes on
\* to copy the frame and returns True at line 359 unless the copy or the
\* submission raises.
save_violation(face_results, non_compliant_items) ==
    LET filtered_faces == _filter_faces_by_confidence(face_results)
        names == FaceNames(filtered_faces)
        d == _should_log_violation(names, non_compliant_items, logging_enabled,
                                   logged_today, recent_violations,
                                   last_cleanup_time, cooldown_seconds, now, today)
        admitted == d.log /\ ~QueueFull(pending_tasks)
    IN  [admitted |-> admitted, reason |-> d.reason,
         lt |-> d.lt, rv |-> d.rv, lct |-> d.lct,
         pending |-> IF admitted THEN pending_tasks + 1 ELSE pending_tasks,
         task |-> [n |-> ntasks + 1, faces |-> names,
                   items |-> non_compliant_items,
                   identified |-> NotUnknown(names), del |-> d.del]]

SaveViolation(face_results, non_compliant_items) ==
    /\ Cardinality(calls) < NumCallers
    /\ LET sv == save_violation(face_results, non_compliant_items)
       IN  /\ sv.admitted => ntasks < MaxTasks
           /\ logged_today' = sv.lt
           /\ recent_violations' = sv.rv
           /\ last_cleanup_time' = sv.lct
           /\ pending_tasks' = sv.pending
           /\ ret' = [result |-> IF sv.admitted THEN "admitted" ELSE "false",
                      reason |-> sv.reason]
           /\ IF sv.admitted
              THEN /\ ntasks' = ntasks + 1
                   /\ calls' = calls \cup {[pc |-> "copy", task |-> sv.task]}
              ELSE UNCHANGED <<ntasks, calls>>
    /\ UNCHANGED <<logging_enabled, cooldown_seconds, daily_logs_file, disk, queue,
                   running, futures, abandoned, now, today,
                   logged_persons>>

\* Lines 338-353: frame.copy() and executor.submit() succeed; the task is in
\* the executor's queue and its future exists.
SubmitTask(c) ==
    /\ c \in calls
    /\ c.pc = "copy"
    /\ queue' = Append(queue, c.task)
    /\ futures' = With(futures, c.task.n, [done |-> FALSE, cb |-> FALSE])
    /\ calls' = (calls \ {c}) \cup {[c EXCEPT !.pc = "callback"]}
    /\ UNCHANGED <<logging_enabled, cooldown_seconds, recent_violations,
                   last_cleanup_time, logged_today, daily_logs_file, disk,
                   pending_tasks, running, ntasks, abandoned, ret, now, today,
                   logged_persons>>

\* Lines 341-353: frame.copy() or executor.submit() raises; the exception
\* leaves save_violation and nothing was submitted.
SubmitRaises(c) ==
    /\ c \in calls
    /\ c.pc = "copy"
    /\ calls' = calls \ {c}
    /\ abandoned' = abandoned + 1
    /\ UNCHANGED <<logging_enabled, cooldown_seconds, recent_violations,
                   last_cleanup_time, logged_today, daily_logs_file, disk,
                   pending_tasks, queue, running, futures, ntasks, ret, now, today,
                   logged_persons>>

\* add_done_callback registering the callback of a finished future without
\* running it
AddDoneCallbackLate(c) ==
    /\ c \in calls
    /\ c.pc = "callback"
    /\ pending_tasks' = pending_tasks
    /\ futures' = [futures EXCEPT ![c.task.n].cb = TRUE]
    /\ calls' = calls \ {c}
    /\ UNCHANGED <<logging_enabled, cooldown_seconds, recent_violations,
                   last_cleanup_time, logged_today, daily_logs_file, disk, queue,
                   running, ntasks, abandoned, ret, now, today,
                   logged_persons>>

\* Lines 356-359: future.add_done_callback; a future that is already done
\* runs the callback at once, in the caller's thread.  Returns True.
AddDoneCallback(c) ==
    /\ c \in calls
    /\ c.pc = "callback"
    /\ IF futures[c.task.n].done
       THEN /\ pending_tasks' = _on_task_complete(pending_tasks)
            /\ futures' = Without(futures, c.task.n)
       ELSE /\ pending_tasks' = pending_tasks
            /\ futures' = [futures EXCEPT ![c.task.n].cb = TRUE]
    /\ calls' = calls \ {c}
    /\ UNCHANGED <<logging_enabled, cooldown_seconds, recent_violations,
                   last_cleanup_time, logged_today, daily_logs_file, disk, queue,
                   running, ntasks, abandoned, ret, now, today,
                   logged_persons>>

(***************************************************************************)
(* The executor's threads: _save_violation_async                           *)
(***************************************************************************)
\* The evidence files that deleting the entries of persons would remove
PreviousPaths(lt, persons) ==
    {lt[p].filepath : p \in Range(persons) \cap DOMAIN lt}

\* The queued tasks that the free threads of the pool have taken: the pool
\* hands the queue out in FIFO order, one task per free thread
Taken == 1..(IF Len(queue) <= max_workers - Cardinality(running)
             THEN Len(queue) ELSE max_workers - Cardinality(running))

\* s with its j-th element removed
Remove(s, j) == [i \in 1..(Len(s) - 1) |-> IF i < j THEN s[i] ELSE s[i + 1]]

\* Lines 382-386: a thread that has taken the j-th queued task deletes the
\* previous logs under the lock.
WorkerDelete(j, rmfail) ==
    /\ j \in Taken
    /\ LET t == queue[j]
           d == IF t.del /\ t.identified /= <<>>
                THEN DeleteAll(logged_today, disk, t.identified, rmfail)
                ELSE [lt |-> logged_today, disk |-> disk, saved |-> FALSE]
       IN  /\ logged_today' = d.lt
           /\ disk' = d.disk
           /\ daily_logs_file' = IF d.saved THEN d.lt ELSE daily_logs_file
           /\ running' = running \cup
                            {[pc |-> "write", task |-> t, written |-> FALSE]}
    /\ queue' = Remove(queue, j)
    /\ UNCHANGED <<logging_enabled, cooldown_seconds, recent_violations,
                   last_cleanup_time, pending_tasks, calls, futures,
                   ntasks, abandoned, ret, now, today,
                   logged_persons>>

\* The path of the evidence file of a task
FilePath(task) == task.n

\* The callback run at completion whether or not it is registered: it runs
\* again when it is added
FutureDoneTwice(n) ==
    /\ pending_tasks' = _on_task_complete(pending_tasks)
    /\ futures' = [futures EXCEPT ![n].done = TRUE]

\* The task function has returned: the future is set done and its callbacks
\* run in the worker thread.  A callback that is not registered yet runs when
\* it is added.
FutureDone(n) ==
    IF futures[n].cb
    THEN /\ pending_tasks' = _on_task_complete(pending_tasks)
         /\ futures' = Without(futures, n)
    ELSE /\ pending_tasks' = pending_tasks
         /\ futures' = [futures EXCEPT ![n].done = TRUE]

\* Lines 388-404: file name, drawing, cv2.imwrite.  The image reaches the disk
\* ("written"), or cv2.imwrite returns False without writing ("unwritten"), or
\* one of the calls raises ("raised"): the except clause logs the error and
\* the task function returns.
WorkerWrite(r, outcome) ==
    /\ r \in running
    /\ r.pc = "write"
    /\ disk' = IF outcome = "written" THEN disk \cup {FilePath(r.task)} ELSE disk
    /\ IF outcome = "raised"
       THEN /\ running' = running \ {r}
            /\ FutureDone(r.task.n)
       ELSE /\ running' = (running \ {r}) \cup
                            {[r EXCEPT !.pc = "mark",
                                       !.written = (outcome = "written")]}
            /\ UNCHANGED <<pending_tasks, futures>>
    /\ UNCHANGED <<logging_enabled, cooldown_seconds, recent_violations,
                   last_cleanup_time, logged_today, daily_logs_file,
                   calls, queue, ntasks, abandoned, ret, now, today,
                   logged_persons>>

\* Lines 406-410: the identified persons are marked under the lock.
WorkerMark(r) ==
    /\ r \in running
    /\ r.pc = "mark"
    /\ LET t == r.task
           lt == MarkAll(logged_today, t.identified, t.items, FilePath(t), today)
       IN  /\ logged_today' = lt
           /\ daily_logs_file' = IF t.identified /= <<>> THEN lt ELSE daily_logs_file
    /\ running' = (running \ {r}) \cup {[r EXCEPT !.pc = "audit"]}
    /\ UNCHANGED <<logging_enabled, cooldown_seconds, recent_violations,
                   last_cleanup_time, disk, pending_tasks, calls, queue, futures,
                   ntasks, abandoned, ret, now, today,
                   logged_persons>>

\* Lines 412-415: _log_violation_details (its errors are swallowed), then
\* the task function returns.
WorkerComplete(r) ==
    /\ r \in running
    /\ r.pc = "audit"
    /\ FutureDone(r.task.n)
    /\ running' = running \ {r}
    /\ UNCHANGED <<logging_enabled, cooldown_seconds, recent_violations,
                   last_cleanup_time, logged_today, daily_logs_file, disk, calls,
                   queue, ntasks, abandoned, ret, now, today,
                   logged_persons>>

(***************************************************************************)
(* Controls                                                                *)
(***************************************************************************)
\* The value a call returns, as Python prints it
PyBool(b) == IF b THEN "True" ELSE "False"

\* enable_logging: the flag, the cooldown cache and the value returned (the
\* method has no return statement)
enable_logging(rv) ==
    [enabled |-> TRUE, rv |-> EmptyMap, result |-> "None"]

\* disable_logging, likewise
disable_logging(rv) ==
    [enabled |-> FALSE, rv |-> EmptyMap, result |-> "None"]

\* toggle_logging that never clears the cache
ToggleKeepsCache(enabled, rv) ==
    [enabled |-> ~enabled, rv |-> rv, result |-> PyBool(~enabled)]

\* toggle_logging
toggle_logging(enabled, rv) ==
    [enabled |-> ~enabled,
     rv |-> IF ~enabled THEN EmptyMap ELSE rv,
     result |-> PyBool(~enabled)]

\* set_cooldown without the clamp
SetCooldownUnclamped(seconds) == seconds

\* set_cooldown: the new cooldown_seconds
set_cooldown(seconds) == Max(MinCooldown, seconds)

EnableLogging ==
    /\ LET e == enable_logging(recent_violations)
       IN  /\ logging_enabled' = e.enabled
           /\ recent_violations' = e.rv
           /\ ret' = [result |-> e.result, reason |-> ""]
    /\ UNCHANGED <<cooldown_seconds, last_cleanup_time, logged_today,
                   daily_logs_file, disk, pending_tasks, calls, queue, running,
                   futures, ntasks, abandoned, now, today,
                   logged_persons>>

DisableLogging ==
    /\ LET e == disable_logging(recent_violations)
       IN  /\ logging_enabled' = e.enabled
           /\ recent_violations' = e.rv
           /\ ret' = [result |-> e.result, reason |-> ""]
    /\ UNCHANGED <<cooldown_seconds, last_cleanup_time, logged_today,
                   daily_logs_file, disk, pending_tasks, calls, queue, running,
                   futures, ntasks, abandoned, now, today,
                   logged_persons>>

ToggleLogging ==
    /\ LET e == toggle_logging(logging_enabled, recent_violations)
       IN  /\ logging_enabled' = e.enabled
           /\ recent_violations' = e.rv
           /\ ret' = [result |-> e.result, reason |-> ""]
    /\ UNCHANGED <<cooldown_seconds, last_cleanup_time, logged_today,
                   daily_logs_file, disk, pending_tasks, calls, queue, running,
                   futures, ntasks, abandoned, now, today,
                   logged_persons>>

SetCooldown(seconds) ==
    /\ cooldown_seconds' = set_cooldown(seconds)
    /\ ret' = [result |-> "None", reason |-> ""]
    /\ UNCHANGED <<logging_enabled, recent_violations, last_cleanup_time,
                   logged_today, daily_logs_file, disk, pending_tasks, calls, queue,
                   running, futures, ntasks, abandoned, now, today,
                   logged_persons>>

\* The bounds of POST /logging/cooldown/
MinCooldownSeconds == 1
MaxCooldownSeconds == 300

\* set_logging_cooldown accepting any value of at least the minimum
SetLoggingCooldownNoMaximum(cd, seconds) ==
    IF seconds < MinCooldownSeconds
    THEN [status |-> "400", detail |-> "Cooldown must be at least 1 second",
          cooldown |-> cd]
    ELSE [status |-> "200", detail |-> "", cooldown |-> set_cooldown(seconds)]

\* set_logging_cooldown: the response and the logger's cooldown_seconds
set_logging_cooldown(cd, seconds) ==
    IF seconds < MinCooldownSeconds
    THEN [status |-> "400", detail |-> "Cooldown must be at least 1 second",
          cooldown |-> cd]
    ELSE IF seconds > MaxCooldownSeconds
    THEN [status |-> "400",
          detail |-> "Cooldown cannot exceed 300 seconds (5 minutes)",
          cooldown |-> cd]
    ELSE [status |-> "200", detail |-> "", cooldown |-> set_cooldown(seconds)]

SetLoggingCooldown(seconds) ==
    /\ LET e == set_logging_cooldown(cooldown_seconds, seconds)
       IN  /\ cooldown_seconds' = e.cooldown
           /\ ret' = [result |-> e.status, reason |-> e.detail]
    /\ UNCHANGED <<logging_enabled, recent_violations, last_cleanup_time,
                   logged_today, daily_logs_file, disk, pending_tasks, calls, queue,
                   running, futures, ntasks, abandoned, now, today,
                   logged_persons>>

(***************************************************************************)
(* The ledger calls of the webcam loop (main.py), made without the lock    *)
(***************************************************************************)
IsPersonLoggedToday(person_name) ==
    /\ logged_today' = _is_person_logged_today(logged_today, person_name, today).lt
    /\ logged_today' /= logged_today
    /\ UNCHANGED <<logging_enabled, cooldown_seconds, recent_violations,
                   last_cleanup_time, daily_logs_file, disk, pending_tasks, calls,
                   queue, running, futures, ntasks, abandoned, ret, now, today,
                   logged_persons>>

DeletePreviousLog(person_name, rmfail) ==
    /\ person_name \in DOMAIN logged_today
    /\ LET d == _delete_previous_log(logged_today, disk, person_name, rmfail)
       IN  /\ logged_today' = d.lt
           /\ disk' = d.disk
           /\ daily_logs_file' = d.lt
    /\ UNCHANGED <<logging_enabled, cooldown_seconds, recent_violations,
                   last_cleanup_time, pending_tasks, calls, queue, running, futures,
                   ntasks, abandoned, ret, now, today,
                   logged_persons>>

(***************************************************************************)
(* Environment: the clock and the calendar                                 *)
(***************************************************************************)
Tick ==
    /\ now + TickStep <= MaxTime
    /\ now' = now + TickStep
    /\ UNCHANGED <<logging_enabled, cooldown_seconds, recent_violations,
                   last_cleanup_time, logged_today, daily_logs_file, disk,
                   pending_tasks, calls, queue, running, futures, ntasks, abandoned, ret, today,
                   logged_persons>>

NextDay ==
    /\ today < MaxDay
    /\ today' = today + 1
    /\ UNCHANGED <<logging_enabled, cooldown_seconds, recent_violations,
                   last_cleanup_time, logged_today, daily_logs_file, disk,
                   pending_tasks, calls, queue, running, futures, ntasks, abandoned, ret, now,
                   logged_persons>>

WriteOutcomes == {"written", "unwritten", "raised"}

\* The rest of save_violation and the executor's threads
PoolNext ==
    \/ \E c \in calls : SubmitTask(c)
    \/ \E c \in calls : SubmitRaises(c)
    \/ \E c \in calls : AddDoneCallback(c)
    \/ \E j \in Taken :
          \E rmfail \in SUBSET PreviousPaths(logged_today, queue[j].identified) :
             WorkerDelete(j, rmfail)
    \/ \E r \in running, o \in WriteOutcomes : WorkerWrite(r, o)
    \/ \E r \in running : WorkerMark(r)
    \/ \E r \in running : WorkerComplete(r)

ControlNext ==
    \/ EnableLogging
    \/ DisableLogging
    \/ ToggleLogging
    \/ \E s \in CooldownInputs : SetCooldown(s)

LoopNext ==
    \/ \E p \in Names : IsPersonLoggedToday(p)
    \/ \E p \in Names :
          \E rmfail \in SUBSET PreviousPaths(logged_today, <<p>>) :
             DeletePreviousLog(p, rmfail)

EnvNext ==
    \/ Tick
    \/ NextDay

Next ==
    \/ \E f \in FaceInputs, i \in ItemInputs : SaveViolation(f, i)
    \/ PoolNext
    \/ ControlNext
    \/ LoopNext
    \/ EnvNext

Spec == Init /\ [][Next]_vars

(***************************************************************************)
(* The pending counter: frames of one Unknown face, the calls and the      *)
(* executor's threads in every interleaving                                *)
(***************************************************************************)
Confident(n) == <<[name |-> n, confidence |-> min_face_confidence]>>

NextCounter ==
    \/ SaveViolation(Confident("Unknown"), <<"shorts">>)
    \/ PoolNext
    \/ EnableLogging

SpecCounter == Init /\ [][NextCounter]_vars

(***************************************************************************)
(* The ledger under the executor's threads: one producer (the webcam loop) *)
(* submitting frames of one known person                                   *)
(***************************************************************************)
MaxLedgerTasks == 3

NextLedger ==
    \/ /\ calls = {}
       /\ ntasks < MaxLedgerTasks
       /\ \E n \in Known, i \in ItemNames : SaveViolation(Confident(n), <<i>>)
    \/ PoolNext
    \/ EnableLogging

SpecLedger == Init /\ [][NextLedger]_vars

(***************************************************************************)
(* save_violation in every state of the logger: the initial states are the *)
(* logger with any setting of the controls, any clock, at most one ledger  *)
(* entry, at most one cooldown record and 0..max_pending_tasks tasks       *)
(* waiting in the executor's queue.  The ledger is loaded from             *)
(* daily_logs.json at construction and may hold an entry of any name,      *)
(* 'Unknown' included, which the webcam loop looks up as well.             *)
(***************************************************************************)
DecideItems == ItemInputs

Instants == {t \in 0..MaxTime : t % TickStep = 0}
CooldownValues == {DefaultCooldown} \cup {Max(MinCooldown, s) : s \in CooldownInputs}

Keys == {_generate_violation_hash(FaceNames(_filter_faces_by_confidence(f)), i) :
            f \in FaceInputs \ {<<>>}, i \in DecideItems}

\* An evidence file of an earlier task
OldPath == MaxTasks + 1

QueuedTask(n) == [n |-> n, faces |-> <<"Unknown">>, items |-> <<"shorts">>,
                  identified |-> <<>>, del |-> FALSE]

InitDecide ==
    /\ logging_enabled \in BOOLEAN
    /\ cooldown_seconds \in CooldownValues
    /\ now \in Instants
    /\ today \in 0..MaxDay
    /\ logged_persons = {}
    /\ last_cleanup_time \in {t \in Instants : t <= now}
    /\ recent_violations \in
          {EmptyMap} \cup {k :> t : k \in Keys, t \in {u \in Instants : u <= now}}
    /\ logged_today \in
          {EmptyMap} \cup
          {p :> [date |-> d, items |-> Sorted(i), filepath |-> OldPath] :
              p \in Names, d \in 0..today, i \in DecideItems}
    /\ daily_logs_file = logged_today
    /\ disk = PreviousPaths(logged_today, <<"Alice", "Unknown">>)
    /\ pending_tasks \in 0..max_pending_tasks
    /\ queue = [n \in 1..pending_tasks |-> QueuedTask(n)]
    /\ futures = [n \in 1..pending_tasks |-> [done |-> FALSE, cb |-> TRUE]]
    /\ ntasks = pending_tasks
    /\ abandoned = 0
    /\ calls = {}
    /\ running = {}
    /\ ret = NoRet

\* One call in each of these states
NextDecide ==
    /\ ret = NoRet
    /\ \E f \in FaceInputs, i \in DecideItems : SaveViolation(f, i)

SpecDecide == InitDecide /\ [][NextDecide]_vars

(***************************************************************************)
(* Properties of the pending counter, under SpecCounter                    *)
(***************************************************************************)
\* C8: in every reachable state, under any interleaving of the callers of
\* save_violation, the executor's threads and the completion callbacks,
\* 0 <= pending_tasks <= max_pending_tasks.
PendingWithinBounds ==
    /\ 0 <= pending_tasks
    /\ pending_tasks <= max_pending_tasks

\* The counter at its maximum while a caller and both threads are at work
PendingAtMaximum ==
    /\ pending_tasks = max_pending_tasks
    /\ calls /= {}
    /\ Cardinality(running) = max_workers

\* Every submitted task has finished and no call is in progress
Drained ==
    /\ calls = {}
    /\ queue = <<>>
    /\ running = {}
    /\ \A n \in DOMAIN futures : futures[n].done

\* C9: after any number of save_violation calls, accepted, refused or failing
\* between admission and submission, once every submitted task has finished
\* pending_tasks is exactly 0.
DrainedCounterIsZero == Drained => pending_tasks = 0

\* The admitted calls whose completion callback has not run: those that have
\* not submitted their task yet, those whose task's future still holds the
\* callback or waits for it, and those that raised before submitting
CallbackNotRun ==
    Cardinality({c \in calls : c.pc = "copy"}) + Cardinality(DOMAIN futures)
        + abandoned

ShowsOnly(face_results, p) ==
    /\ \E k \in 1..Len(face_results) :
          /\ face_results[k].name = p
          /\ face_results[k].confidence >= min_face_confidence
    /\ \A k \in 1..Len(face_results) :
          \/ face_results[k].name \in {p, "Unknown"}
          \/ face_results[k].confidence < min_face_confidence

\* The frames with a face, all of them Unknown or below the confidence floor
ShowsUnknownOnly(face_results) ==
    /\ face_results /= <<>>
    /\ \A k \in 1..Len(face_results) :
          \/ face_results[k].name = "Unknown"
          \/ face_results[k].confidence < min_face_confidence

LoggedToday(p) == p \in DOMAIN logged_today /\ logged_today[p].date = today

\* The cooldown key of a call
KeyOf(face_results, items) ==
    _generate_violation_hash(FaceNames(_filter_faces_by_confidence(face_results)),
                             items)

\* C1: if a known identity has a ledger entry dated today whose item set equals
\* the current item set (as sets), save_violation called with that identity's
\* face returns false, queues no task and leaves pending_tasks unchanged,
\* whatever the cooldown cache holds.
DailyCapSameViolation ==
    \A f \in FaceInputs, i \in DecideItems, p \in Known :
        (/\ ShowsOnly(f, p)
         /\ LoggedToday(p)
         /\ Range(logged_today[p].items) = Range(i))
        => LET sv == save_violation(f, i)
           IN  /\ ~sv.admitted
               /\ sv.pending = pending_tasks

\* A call refused by the daily cap while the cooldown cache holds a record
RefusedByDailyCap ==
    /\ ret = [result |-> "false", reason |-> "Already logged today: Alice"]
    /\ recent_violations /= EmptyMap
    /\ calls = {}

\* C3: a save_violation call with an empty face_results list, in any state of
\* the logger, returns false and leaves the daily ledger, the cooldown cache
\* and pending_tasks unchanged; no task is queued.
NoFaceNoEffect ==
    \A i \in DecideItems :
        LET sv == save_violation(<<>>, i)
        IN  /\ ~sv.admitted
            /\ sv.lt = logged_today
            /\ sv.rv = recent_violations
            /\ sv.pending = pending_tasks

\* A call refused for want of a face
RefusedNoFace ==
    /\ ret = [result |-> "false", reason |-> "No faces detected"]
    /\ calls = {}

\* C4 as claimed: of two calls with the same identities and items, the first
\* approved at time t (the record of their key in the cache), the second
\* returns false at t' with t' - t < cooldown_seconds and true beyond the
\* window (queue not full, logging enabled).
CooldownSuppression ==
    \A f \in FaceInputs \ {<<>>}, i \in DecideItems :
        (/\ logging_enabled
         /\ pending_tasks < max_pending_tasks
         /\ KeyOf(f, i) \in DOMAIN recent_violations)
        => (save_violation(f, i).admitted
               <=> now - recent_violations[KeyOf(f, i)] >= cooldown_seconds)

\* C4 as amended: of two calls with the same identities and items, the first
\* approved on the cooldown path at time t and its record still in the cache,
\* the second, made at t' when no known identity of the frame has a ledger
\* entry dated today, returns false if t' - t < cooldown_seconds and true if
\* t' - t >= cooldown_seconds (queue not full, logging enabled).
CooldownSuppressionUnlogged ==
    \A f \in FaceInputs \ {<<>>}, i \in DecideItems :
        (/\ logging_enabled
         /\ pending_tasks < max_pending_tasks
         /\ KeyOf(f, i) \in DOMAIN recent_violations
         /\ \A p \in Known :
               \/ ~LoggedToday(p)
               \/ \A k \in 1..Len(f) : \/ f[k].name /= p
                                       \/ f[k].confidence < min_face_confidence)
        => (save_violation(f, i).admitted
               <=> now - recent_violations[KeyOf(f, i)] >= cooldown_seconds)

\* A call refused by the cooldown
RefusedByCooldown ==
    /\ ret = [result |-> "false", reason |-> "Cooldown active"]
    /\ calls = {}

\* C5: a frame whose faces are all Unknown is never refused on the grounds of
\* the daily ledger, which the call leaves alone: a call made cooldown_seconds
\* or more after the last approval of the same faces and items returns true
\* (queue not full, logging enabled), whatever Unknown entries the ledger holds.
UnknownNoDailyCap ==
    \A f \in FaceInputs, i \in DecideItems :
        ShowsUnknownOnly(f)
        => LET sv == save_violation(f, i)
               k == KeyOf(f, i)
           IN  /\ sv.lt = logged_today
               /\ sv.reason \in {"Logging disabled", "Cooldown active",
                                 "Logging approved"}
               /\ (/\ logging_enabled
                   /\ pending_tasks < max_pending_tasks
                   /\ \/ k \notin DOMAIN recent_violations
                      \/ now - recent_violations[k] >= cooldown_seconds)
                  => sv.admitted

\* An Unknown frame admitted although the ledger holds an Unknown entry dated
\* today with the same items
UnknownAdmittedAgain ==
    /\ ret.result = "admitted"
    /\ LoggedToday("Unknown")
    /\ \E c \in calls : /\ c.task.identified = <<>>
                        /\ Sorted(c.task.items) = logged_today["Unknown"].items

\* C6: when a known identity is logged today with items S and a candidate
\* arrives with items T /= S, the candidate is approved even if the cache holds
\* a record of its key younger than cooldown_seconds: the daily-limit decision
\* is taken before, and instead of, the cooldown check, which neither refuses
\* the call nor stamps the cache.
DailyLimitBeforeCooldown ==
    \A f \in FaceInputs, i \in DecideItems, p \in Known :
        (/\ logging_enabled
         /\ ShowsOnly(f, p)
         /\ LoggedToday(p)
         /\ Range(logged_today[p].items) /= Range(i))
        => LET sv == save_violation(f, i)
           IN  /\ sv.reason = "Different violations detected - updating"
               /\ sv.task.del
               /\ pending_tasks < max_pending_tasks => sv.admitted
               /\ \A k \in DOMAIN sv.rv : /\ k \in DOMAIN recent_violations
                                          /\ sv.rv[k] = recent_violations[k]

\* A changed violation admitted for replacement while the record of its key is
\* younger than cooldown_seconds
ReplacedWithinCooldown ==
    \E c \in calls :
       /\ c.task.del
       /\ ret = [result |-> "admitted",
                 reason |-> "Different violations detected - updating"]
       /\ LET k == _generate_violation_hash(c.task.faces, c.task.items)
          IN  /\ k \in DOMAIN recent_violations
              /\ now - recent_violations[k] < cooldown_seconds

ReplacementRecorded ==
    [][\A r \in running :
          (/\ r.pc = "audit"
           /\ r.task.del
           /\ r.task.n = ntasks
           /\ r.written
           /\ running' = running \ {r})
          => \A p \in Range(r.task.identified) :
                /\ p \in DOMAIN logged_today'
                /\ logged_today'[p] = [date |-> today,
                                       items |-> Sorted(r.task.items),
                                       filepath |-> FilePath(r.task)]]_vars

(***************************************************************************)
(* Frame of a refused call, under SpecDecide, where every step is one      *)
(* save_violation call                                                     *)
(***************************************************************************)
\* C11: while logging is disabled every save_violation call returns false and
\* changes nothing: the ledger, the cooldown cache, pending_tasks and the
\* queued tasks are after the call as before it.
DisabledCallChangesNothing ==
    [][~logging_enabled
       => /\ ret'.result = "false"
          /\ logged_today' = logged_today
          /\ daily_logs_file' = daily_logs_file
          /\ recent_violations' = recent_violations
          /\ last_cleanup_time' = last_cleanup_time
          /\ pending_tasks' = pending_tasks
          /\ calls' = calls
          /\ queue' = queue
          /\ futures' = futures]_vars

\* A call refused because logging is disabled, with a ledger entry and a
\* cooldown record in place and room in the queue
RefusedDisabled ==
    /\ ret = [result |-> "false", reason |-> "Logging disabled"]
    /\ ~logging_enabled
    /\ logged_today /= EmptyMap
    /\ recent_violations /= EmptyMap
    /\ pending_tasks < max_pending_tasks

(***************************************************************************)
(* The confidence floor: a logger constructed over a daily_logs.json that  *)
(* holds an entry of Alice dated today, and frames that show Alice below   *)
(* the floor, with the executor's threads                                  *)
(***************************************************************************)
LoadedLedger ==
    "Alice" :> [date |-> 0, items |-> <<"shorts">>, filepath |-> OldPath]

InitLoaded ==
    /\ logging_enabled = FALSE
    /\ cooldown_seconds = DefaultCooldown
    /\ recent_violations = EmptyMap
    /\ last_cleanup_time = 0
    /\ logged_today = LoadedLedger
    /\ daily_logs_file = LoadedLedger
    /\ disk = {OldPath}
    /\ pending_tasks = 0
    /\ calls = {}
    /\ queue = <<>>
    /\ running = {}
    /\ futures = EmptyMap
    /\ ntasks = 0
    /\ abandoned = 0
    /\ ret = NoRet
    /\ now = 0
    /\ today = 0
    /\ logged_persons = {}

BelowFloor(n) == <<[name |-> n, confidence |-> min_face_confidence - 1]>>

NextFloor ==
    \/ /\ calls = {}
       /\ ntasks < MaxLedgerTasks
       /\ \E n \in Known, i \in ItemNames : SaveViolation(BelowFloor(n), <<i>>)
    \/ PoolNext
    \/ EnableLogging

SpecFloor == InitLoaded /\ [][NextFloor]_vars

\* The tasks of the admitted calls, wherever they are
TasksInFlight ==
    {c.task : c \in calls} \cup Range(queue) \cup {r.task : r \in running}

FailedWriteMarksNobody ==
    [][\A r \in running :
          (/\ r.pc = "mark"
           /\ ~r.written
           /\ running' = (running \ {r}) \cup {[r EXCEPT !.pc = "audit"]})
          => logged_today' = logged_today]_vars

(***************************************************************************)
(* The webcam loop around the logger: frames of an Unknown face are        *)
(* logged, a known face's frame first clears what was logged for Unknown,  *)
(* the loop looks identities up and deletes their logs, and the day        *)
(* changes.  The ledger is loaded with at most one entry of today, whose   *)
(* evidence file may have been removed from the folder since.              *)
(***************************************************************************)
MaxWebcamTasks == 2

\* main.py 755-757: 'Unknown' in logged_persons short-circuits the lookup
DeleteUnknownLogs(lt, dk, day, in_session, rmfail) ==
    LET look == _is_person_logged_today(lt, "Unknown", day)
    IN  IF in_session THEN _delete_previous_log(lt, dk, "Unknown", rmfail)
        ELSE IF look.result
             THEN _delete_previous_log(look.lt, dk, "Unknown", rmfail)
             ELSE [lt |-> look.lt, disk |-> dk, saved |-> FALSE]

KnownFaceDetected(in_session, rmfail) ==
    /\ LET d == DeleteUnknownLogs(logged_today, disk, today, in_session, rmfail)
       IN  /\ logged_today' = d.lt
           /\ disk' = d.disk
           /\ daily_logs_file' = IF d.saved THEN d.lt ELSE daily_logs_file
    /\ UNCHANGED <<logging_enabled, cooldown_seconds, recent_violations,
                   last_cleanup_time, pending_tasks, calls, queue, running, futures,
                   ntasks, abandoned, ret, now, today,
                   logged_persons>>

InitWebcam ==
    /\ logging_enabled = FALSE
    /\ cooldown_seconds = DefaultCooldown
    /\ recent_violations = EmptyMap
    /\ last_cleanup_time = 0
    /\ logged_today \in
          {EmptyMap} \cup
          {p :> [date |-> 0, items |-> <<"shorts">>, filepath |-> OldPath] :
              p \in Names}
    /\ daily_logs_file = logged_today
    /\ disk \in {{}, PreviousPaths(logged_today, <<"Alice", "Unknown">>)}
    /\ pending_tasks = 0
    /\ calls = {}
    /\ queue = <<>>
    /\ running = {}
    /\ futures = EmptyMap
    /\ ntasks = 0
    /\ abandoned = 0
    /\ ret = NoRet
    /\ now = 0
    /\ today = 0
    /\ logged_persons = {}

NextWebcam ==
    \/ /\ calls = {}
       /\ ntasks < MaxWebcamTasks
       /\ SaveViolation(Confident("Unknown"), <<"shorts">>)
    \/ PoolNext
    \/ EnableLogging
    \/ LoopNext
    \/ \E in_session \in BOOLEAN :
          \E rmfail \in SUBSET PreviousPaths(logged_today, <<"Unknown">>) :
             KnownFaceDetected(in_session, rmfail)
    \/ NextDay

SpecWebcam == InitWebcam /\ [][NextWebcam]_vars

Stale(p) == p \in DOMAIN logged_today /\ logged_today[p].date /= today

\* A step that drops p's entry from memory without saving the ledger: the
\* lazy expiry of a lookup
ExpiryStep(p) ==
    /\ Stale(p)
    /\ p \notin DOMAIN logged_today'
    /\ daily_logs_file' = daily_logs_file

\* C14: for an identity whose entry is dated another day, _is_person_logged_today
\* answers false and drops that entry (and no other) from the in-memory ledger,
\* and the step deletes no evidence file; for an entry of today it answers true
\* and leaves the ledger as it is.
ExpiryLookup ==
    [][/\ \A p \in Names :
             LET r == _is_person_logged_today(logged_today, p, today)
             IN  /\ Stale(p)
                    => /\ r.result = FALSE
                       /\ DOMAIN r.lt = DOMAIN logged_today \ {p}
                       /\ \A q \in DOMAIN r.lt : r.lt[q] = logged_today[q]
                 /\ (p \in DOMAIN logged_today /\ ~Stale(p))
                    => /\ r.result = TRUE
                       /\ r.lt = logged_today
       /\ \A p \in Names : ExpiryStep(p) => disk' = disk]_vars

ExpiredEntryDropped ==
    /\ today = 1
    /\ logged_today = EmptyMap
    /\ "Alice" \in DOMAIN daily_logs_file
    /\ OldPath \in disk

\* C15: _delete_previous_log removes the identity's ledger entry and saves
\* the ledger whether the evidence file is there, already gone, or cannot be
\* removed; without an entry it changes nothing; a second call changes
\* nothing more.
IdempotentDelete ==
    \A p \in Names : \A rmfail \in SUBSET (disk \cup {OldPath}) :
       LET d == _delete_previous_log(logged_today, disk, p, rmfail)
           e == _delete_previous_log(d.lt, d.disk, p, rmfail)
       IN  /\ DOMAIN d.lt = DOMAIN logged_today \ {p}
           /\ \A q \in DOMAIN d.lt : d.lt[q] = logged_today[q]
           /\ d.disk \subseteq disk
           /\ p \in DOMAIN logged_today => d.saved
           /\ p \notin DOMAIN logged_today
              => d.lt = logged_today /\ d.disk = disk /\ ~d.saved
           /\ e.lt = d.lt /\ e.disk = d.disk /\ ~e.saved

DeletedThoughRemovalFailed ==
    /\ ntasks = 0
    /\ logged_today = EmptyMap
    /\ daily_logs_file = EmptyMap
    /\ OldPath \in disk

\* The evidence files that the tasks of Unknown frames have written
UnknownEvidence == disk \ {OldPath}

\* C16: when a known face's frame is handled, what was persisted for Unknown
\* before is deleted: no ledger entry of Unknown and no evidence file of an
\* Unknown frame is left (no file removal failing).
UnknownSuperseded ==
    \A in_session \in BOOLEAN :
       LET d == DeleteUnknownLogs(logged_today, disk, today, in_session, {})
       IN  /\ "Unknown" \notin DOMAIN d.lt
           /\ d.disk \cap UnknownEvidence = {}

(***************************************************************************)
(* The controls: the logger is switched on and off and its cooldown is set, *)
(* directly and through POST /logging/cooldown/, while frames of one known  *)
(* person are logged and the clock advances                                 *)
(***************************************************************************)
MaxControlTasks == 2

SecondsInputs == {-1, 0, 1, 2}
EndpointInputs == {0, MinCooldownSeconds, MaxCooldownSeconds, MaxCooldownSeconds + 1}

NextControl ==
    \/ /\ calls = {}
       /\ ntasks < MaxControlTasks
       /\ SaveViolation(Confident("Alice"), <<"shorts">>)
    \/ PoolNext
    \/ EnableLogging
    \/ DisableLogging
    \/ ToggleLogging
    \/ \E s \in SecondsInputs : SetCooldown(s)
    \/ \E s \in EndpointInputs : SetLoggingCooldown(s)
    \/ Tick

SpecControl == Init /\ [][NextControl]_vars

\* C17: whenever logging goes from disabled to enabled the cooldown cache is
\* empty right afterwards, and the candidate of the earlier period, offered
\* again then, is not refused for an active cooldown.
EnablingClearsCache ==
    [][(~logging_enabled /\ logging_enabled')
       => /\ recent_violations' = EmptyMap
          /\ _should_log_violation(<<"Alice">>, <<"shorts">>, logging_enabled',
                                   logged_today', recent_violations',
                                   last_cleanup_time', cooldown_seconds', now',
                                   today').reason /= "Cooldown active"]_vars

\* Logging is on with an empty cache at the instant of the first call, whose
\* record only a switch of the logger can have cleared
ReenabledWithEmptyCache ==
    /\ logging_enabled
    /\ recent_violations = EmptyMap
    /\ ntasks >= 1
    /\ now = 0

\* C18: a call that changes the enabled flag returns the new state of the
\* flag as a bool.
SwitchReturnsNewState ==
    [][logging_enabled' /= logging_enabled
       => ret'.result = PyBool(logging_enabled')]_vars

\* C19: set_cooldown(s) yields max(1, s), cooldown_seconds is at least 1
\* after every call, and a call that changes it leaves the ledger, the
\* cooldown cache and pending_tasks alone.
CooldownClamped ==
    [][/\ \A s \in SecondsInputs \cup EndpointInputs :
             set_cooldown(s) = IF s < 1 THEN 1 ELSE s
       /\ cooldown_seconds' >= 1
       /\ cooldown_seconds' /= cooldown_seconds
          => /\ \E s \in SecondsInputs \cup EndpointInputs :
                   cooldown_seconds' = set_cooldown(s)
             /\ logged_today' = logged_today
             /\ daily_logs_file' = daily_logs_file
             /\ recent_violations' = recent_violations
             /\ pending_tasks' = pending_tasks]_vars

ClampedWithWorkPending ==
    /\ cooldown_seconds = MinCooldown
    /\ recent_violations /= EmptyMap
    /\ pending_tasks > 0

\* C20: POST /logging/cooldown/ answers 400 and leaves cooldown_seconds as it
\* is for a value below 1 or above 300, and sets exactly the requested value
\* otherwise.
EndpointRange ==
    \A s \in EndpointInputs :
       LET e == set_logging_cooldown(cooldown_seconds, s)
       IN  IF s < 1 \/ s > 300
           THEN e.status = "400" /\ e.cooldown = cooldown_seconds
           ELSE e.status = "200" /\ e.cooldown = s

RejectedAfterMaximum ==
    /\ ret.result = "400"
    /\ cooldown_seconds = MaxCooldownSeconds

(***************************************************************************)
(* Statistics and the calendar: one known person's frames go through the   *)
(* executor while the day changes and GET /logging/stats/ is served        *)
(***************************************************************************)
\* `d == today` in get_stats, for d a value of self.logged_today: the values
\* are dicts (lines 57, 60 and 89-93) and today is a str, so the comparison
\* is False whatever the entry's date
EntryEqualsDate(d, day) == FALSE

\* get_stats: persons_logged_today
get_stats(lt, day) ==
    [persons_logged_today |->
        Cardinality({p \in DOMAIN lt : EntryEqualsDate(lt[p], day)})]

GetStats ==
    /\ ret' = [result |-> ToString(get_stats(logged_today, today).persons_logged_today),
               reason |-> "persons_logged_today"]
    /\ UNCHANGED <<logging_enabled, cooldown_seconds, recent_violations,
                   last_cleanup_time, logged_today, daily_logs_file, disk,
                   pending_tasks, calls, queue, running, futures, ntasks,
                   abandoned, now, today,
                   logged_persons>>

NextDaily ==
    \/ NextLedger
    \/ NextDay
    \/ GetStats

SpecDaily == Init /\ [][NextDaily]_vars

\* The identities with a ledger entry dated today
LoggedTodaySet == {p \in DOMAIN logged_today : logged_today[p].date = today}

\* C21: get_stats reports in persons_logged_today the number of identities
\* with a ledger entry dated today.
StatsCountLoggedToday ==
    get_stats(logged_today, today).persons_logged_today
       = Cardinality(LoggedTodaySet)

(***************************************************************************)
(* Construction: the ledger is loaded from daily_logs.json, whose entries  *)
(* are dicts or, in the old format, bare date strings                      *)
(***************************************************************************)
\* A value of the old format: the date string alone
LegacyEntry(d) == [legacy |-> d]

\* isinstance(log_info, str)
IsLegacy(log_info) == "legacy" \in DOMAIN log_info

FileValues ==
    {LegacyEntry(d) : d \in 0..MaxDay} \cup
    {[date |-> d, items |-> <<"shorts">>, filepath |-> OldPath] : d \in 0..MaxDay}

FileData == UNION {[P -> FileValues] : P \in SUBSET Names}

\* _load_daily_logs keeping the entries of every date
LoadKeepsAllDates(exists, readable, data, day) ==
    IF ~exists \/ ~readable THEN EmptyMap
    ELSE [p \in DOMAIN data |->
             IF IsLegacy(data[p])
             THEN [date |-> day, items |-> <<>>, filepath |-> NoPath]
             ELSE data[p]]

\* _load_daily_logs: exists is os.path.exists(self.daily_logs_file), readable
\* is whether open and json.load succeed
_load_daily_logs(exists, readable, data, day) ==
    IF ~exists THEN EmptyMap
    ELSE IF ~readable THEN EmptyMap
    ELSE LET kept == {p \in DOMAIN data :
                         IF IsLegacy(data[p]) THEN data[p].legacy = day
                         ELSE data[p].date = day}
         IN  [p \in kept |->
                 IF IsLegacy(data[p])
                 THEN [date |-> day, items |-> <<>>, filepath |-> NoPath]
                 ELSE data[p]]

\* The logger before __init__ has run: the folder with its ledger file and
\* evidence files
InitLoad ==
    /\ logging_enabled = FALSE
    /\ cooldown_seconds = DefaultCooldown
    /\ recent_violations = EmptyMap
    /\ last_cleanup_time = 0
    /\ logged_today = EmptyMap
    /\ daily_logs_file \in FileData
    /\ disk \in SUBSET {OldPath}
    /\ pending_tasks = 0
    /\ calls = {}
    /\ queue = <<>>
    /\ running = {}
    /\ futures = EmptyMap
    /\ ntasks = 0
    /\ abandoned = 0
    /\ ret = NoRet
    /\ now = 0
    /\ today \in 0..MaxDay
    /\ logged_persons = {}

\* __init__; a file that does not exist has no content
Construct(exists, readable) ==
    /\ ret = NoRet
    /\ exists \/ daily_logs_file = EmptyMap
    /\ logged_today' = _load_daily_logs(exists, readable, daily_logs_file, today)
    /\ ret' = [result |-> "None", reason |-> ""]
    /\ UNCHANGED <<logging_enabled, cooldown_seconds, recent_violations,
                   last_cleanup_time, daily_logs_file, disk, pending_tasks, calls,
                   queue, running, futures, ntasks, abandoned, now, today,
                   logged_persons>>

NextLoad == \E exists \in BOOLEAN, readable \in BOOLEAN : Construct(exists, readable)

SpecLoad == InitLoad /\ [][NextLoad]_vars

\* What the file says of p's date
FileDate(p) ==
    IF IsLegacy(daily_logs_file[p]) THEN daily_logs_file[p].legacy
    ELSE daily_logs_file[p].date

\* C22: construction loads exactly the file's entries dated today, a bare date
\* string of today as an entry with no items and no file path; entries of
\* other dates are dropped and no evidence file is deleted; a missing or
\* unreadable file gives an empty ledger.
LoadOnStart ==
    [][/\ \A exists \in BOOLEAN, readable \in BOOLEAN :
             LET l == _load_daily_logs(exists, readable, daily_logs_file, today)
             IN  IF exists /\ readable
                 THEN /\ DOMAIN l = {p \in DOMAIN daily_logs_file : FileDate(p) = today}
                      /\ \A p \in DOMAIN l :
                            IF IsLegacy(daily_logs_file[p])
                            THEN l[p] = [date |-> today, items |-> <<>>,
                                         filepath |-> NoPath]
                            ELSE l[p] = daily_logs_file[p]
                 ELSE l = EmptyMap
       /\ disk' = disk
       /\ daily_logs_file' = daily_logs_file]_vars

LoadedTodayOnly ==
    /\ ret /= NoRet
    /\ DOMAIN logged_today = {"Alice"}
    /\ logged_today["Alice"].filepath = NoPath
    /\ DOMAIN daily_logs_file = {"Alice", "Unknown"}
    /\ OldPath \in disk

(***************************************************************************)
(* The lock.  The executor's threads delete and mark inside                 *)
(* `with self.lock`, and save_violation decides inside it: those blocks are *)
(* single steps.  The webcam loop calls _delete_previous_log (main.py 782)  *)
(* without the lock, so its call is two steps that the other threads'       *)
(* steps can come between: the entry is found and its evidence file         *)
(* removed, then the entry is deleted and the ledger saved.                 *)
(***************************************************************************)
\* Lines 109-120, from main.py 778-782: the lookup has answered true
LoopDeleteBegin(person_name, rmfail) ==
    /\ calls = {}
    /\ _is_person_logged_today(logged_today, person_name, today).result
    /\ LET filepath == logged_today[person_name].filepath
       IN  disk' = IF filepath /= NoPath /\ filepath \in disk
                      /\ filepath \notin rmfail
                   THEN disk \ {filepath} ELSE disk
    /\ calls' = {[pc |-> "del", task |-> [person |-> person_name]]}
    /\ UNCHANGED <<logging_enabled, cooldown_seconds, recent_violations,
                   last_cleanup_time, logged_today, daily_logs_file,
                   pending_tasks, queue, running, futures, ntasks, abandoned,
                   ret, now, today,
                   logged_persons>>

\* Lines 123-124: `del self.logged_today[person_name]` raises KeyError when
\* the entry has gone in the meantime, and the ledger is not saved
LoopDeleteEnd(c) ==
    /\ c \in calls
    /\ c.pc = "del"
    /\ IF c.task.person \in DOMAIN logged_today
       THEN /\ logged_today' = Without(logged_today, c.task.person)
            /\ daily_logs_file' = logged_today'
       ELSE UNCHANGED <<logged_today, daily_logs_file>>
    /\ calls' = calls \ {c}
    /\ UNCHANGED <<logging_enabled, cooldown_seconds, recent_violations,
                   last_cleanup_time, disk, pending_tasks, queue, running,
                   futures, ntasks, abandoned, ret, now, today,
                   logged_persons>>

NextLock ==
    \/ NextLedger
    \/ \E p \in Known :
          \E rmfail \in SUBSET PreviousPaths(logged_today, <<p>>) :
             LoopDeleteBegin(p, rmfail)
    \/ \E c \in calls : LoopDeleteEnd(c)

SpecLock == Init /\ [][NextLock]_vars

\* C23: no two threads are inside a ledger mutation at the same time: while
\* the webcam loop's thread is in the middle of _delete_previous_log, no
\* other thread's step changes the ledger.
LedgerMutationsExclusive ==
    [][(\E c \in calls : c.pc = "del" /\ c \in calls')
       => /\ logged_today' = logged_today
          /\ daily_logs_file' = daily_logs_file]_vars

(***************************************************************************)
(* The ledger and the evidence files once the executor has drained, under  *)
(* SpecLedger                                                              *)
(***************************************************************************)
\* The evidence files that the ledger's entries refer to
ReferencedPaths == {logged_today[p].filepath : p \in DOMAIN logged_today}

\* C24: after all tasks have drained, every evidence file of a known identity
\* on disk is the one that the identity's ledger entry refers to.
NoOrphanedEvidence == Drained => disk \subseteq ReferencedPaths

\* C25: after all tasks have drained, a known identity's ledger entry refers
\* to the evidence of the violation approved last for that identity.
LedgerHoldsLatest ==
    (Drained /\ ntasks > 0)
    => /\ "Alice" \in DOMAIN logged_today
       /\ logged_today["Alice"].filepath = ntasks

\* C26: a task approved for replacement that fails before its evidence image
\* is written does not leave the identity without the ledger entry it had
\* before.  Stated for a task that is alone in the executor when it fails.
FailedTaskKeepsEntry ==
    [][\A r \in running :
          (/\ r.pc = "write"
           /\ r.task.del
           /\ running = {r}
           /\ queue = <<>>
           /\ calls = {}
           /\ pending_tasks = 1
           /\ running' = {})
          => \A p \in Range(r.task.identified) : p \in DOMAIN logged_today']_vars

(***************************************************************************)
(* The bookkeeping of an approved call that the full queue turns away,     *)
(* under SpecDecide                                                        *)
(***************************************************************************)
\* C27: when a call is approved on the cooldown path and refused because the
\* queue is full, its cooldown record is in the cache with the time of the
\* approval, pending_tasks is unchanged, and the same candidate offered again
\* within cooldown_seconds is refused with 'Cooldown active'.
CooldownRecordStands ==
    \A f \in FaceInputs, i \in DecideItems :
        LET sv == save_violation(f, i)
            k == KeyOf(f, i)
            names == FaceNames(_filter_faces_by_confidence(f))
        IN  (sv.reason = "Logging approved" /\ ~sv.admitted)
            => /\ pending_tasks >= max_pending_tasks
               /\ sv.pending = pending_tasks
               /\ k \in DOMAIN sv.rv
               /\ sv.rv[k] = now
               /\ \A t \in Instants :
                     (now <= t /\ t - now < cooldown_seconds)
                     => _should_log_violation(names, i, logging_enabled, sv.lt,
                                              sv.rv, sv.lct, cooldown_seconds,
                                              t, today).reason
                           = "Cooldown active"

\* The call turned away by the full queue has left its record, made now
QueueFullRecordKept ==
    /\ ret = [result |-> "false", reason |-> "Logging approved"]
    /\ pending_tasks = max_pending_tasks
    /\ \E k \in DOMAIN recent_violations : recent_violations[k] = now
    /\ logged_today = EmptyMap
    /\ now > 0

\* C28: of the calls made with the same identities and the same items within
\* one cooldown window at most one is approved: after an admitted call, the
\* same candidate offered again at once, before any task has run, is not
\* approved.
NoFlooding ==
    \A f \in FaceInputs, i \in DecideItems :
        LET sv == save_violation(f, i)
            names == FaceNames(_filter_faces_by_confidence(f))
        IN  sv.admitted
            => ~_should_log_violation(names, i, logging_enabled, sv.lt, sv.rv,
                                      sv.lct, cooldown_seconds, now, today).log

(***************************************************************************)
(* Frames with two known persons: the ledger holds any entries of theirs,  *)
(* of today or of the day before, and calls with both faces go through the *)
(* executor                                                                *)
(***************************************************************************)
MaxPairTasks == 1

Pair == {"Alice", "Bob"}

\* Both faces at the confidence floor, in either order
PairFrames ==
    {<<[name |-> pq[1], confidence |-> min_face_confidence],
       [name |-> pq[2], confidence |-> min_face_confidence]>> :
        pq \in {x \in Pair \X Pair : x[1] /= x[2]}}

\* The evidence file of p's earlier entry
PairPath(p) == IF p = "Alice" THEN OldPath ELSE OldPath + 1

PairLedgers ==
    UNION {{lt \in [P -> [date : {0, 1}, items : {<<"shorts">>, <<"t-shirt">>},
                          filepath : {OldPath, OldPath + 1}]] :
               \A p \in P : lt[p].filepath = PairPath(p)} : P \in SUBSET Pair}

InitPair ==
    /\ logging_enabled = TRUE
    /\ cooldown_seconds = DefaultCooldown
    /\ recent_violations = EmptyMap
    /\ last_cleanup_time = 0
    /\ logged_today \in PairLedgers
    /\ daily_logs_file = logged_today
    /\ disk = {logged_today[p].filepath : p \in DOMAIN logged_today}
    /\ pending_tasks = 0
    /\ calls = {}
    /\ queue = <<>>
    /\ running = {}
    /\ futures = EmptyMap
    /\ ntasks = 0
    /\ abandoned = 0
    /\ ret = NoRet
    /\ now = 0
    /\ today = 1
    /\ logged_persons = {}

NextPair ==
    \/ /\ calls = {}
       /\ ntasks < MaxPairTasks
       /\ \E f \in PairFrames, i \in ItemNames : SaveViolation(f, <<i>>)
    \/ PoolNext

SpecPair == InitPair /\ [][NextPair]_vars

\* C29: the worker of a frame approved for replacement deletes the previous
\* entry and evidence only of the identities logged today with other items:
\* an identity of the frame whose recorded items equal the current ones, or
\* whose entry is of another day, keeps its entry and its evidence file in
\* the step that deletes the previous logs.
DeletesOnlyChanged ==
    [][\A r \in running' \ running :
          r.task.del
          => \A p \in Range(r.task.identified) \cap DOMAIN logged_today :
                (\/ Range(logged_today[p].items) = Range(r.task.items)
                 \/ logged_today[p].date /= today)
                => /\ p \in DOMAIN logged_today'
                   /\ logged_today'[p] = logged_today[p]
                   /\ logged_today[p].filepath \in disk
                      => logged_today[p].filepath \in disk']_vars

\* C30: no operation deletes the evidence file of a ledger entry whose date
\* is not today.  (Under SpecDaily, where the day changes while tasks are in
\* the executor.)
ExpiredEvidenceKept ==
    [][\A p \in DOMAIN logged_today :
          (logged_today[p].date /= today /\ logged_today[p].filepath \in disk)
          => logged_today[p].filepath \in disk']_vars

(***************************************************************************)
(* The cooldown cache and its periodic sweep, under SpecDecide             *)
(***************************************************************************)
\* C31: a cooldown record older than the current window never causes a
\* 'Cooldown active' refusal, whether the sweep has removed it or not; the
\* sweep runs only when CleanupInterval seconds have passed since the last
\* one, and it removes no record that is still inside the window.
OldRecordInert ==
    /\ \A f \in FaceInputs, i \in DecideItems :
          (/\ KeyOf(f, i) \in DOMAIN recent_violations
           /\ now - recent_violations[KeyOf(f, i)] >= cooldown_seconds)
          => save_violation(f, i).reason /= "Cooldown active"
    /\ LET cl == _cleanup_old_violations(recent_violations, last_cleanup_time,
                                         now, cooldown_seconds)
       IN  /\ now - last_cleanup_time < CleanupInterval
              => cl.rv = recent_violations
           /\ \A k \in DOMAIN recent_violations :
                 now - recent_violations[k] < cooldown_seconds
                 => /\ k \in DOMAIN cl.rv
                    /\ cl.rv[k] = recent_violations[k]

\* A call approved for one candidate while another candidate's record, older
\* than the window, is still in the cache: no sweep was due
StaleRecordUnswept ==
    /\ ret = [result |-> "admitted", reason |-> "Logging approved"]
    /\ now - last_cleanup_time < CleanupInterval
    /\ \E k \in DOMAIN recent_violations :
          now - recent_violations[k] >= cooldown_seconds
    /\ \E k \in DOMAIN recent_violations : recent_violations[k] = now

(***************************************************************************)
(* self.lock as a resource.  The logger has one lock (line 37): the        *)
(* decision and the increment of save_violation (324-335), the decrement   *)
(* of _on_task_complete (363-364), and the worker's delete (384-386) and   *)
(* mark (407-410) blocks all take it.  Here the worker's mark block is    *)
(* three steps: the acquisition, the marking up to the opening of the      *)
(* ledger file, and the json.dump with the release.  Every other block     *)
(* that takes the lock is enabled only while no thread is inside the mark  *)
(* block.                                                                  *)
(***************************************************************************)
\* A thread of the executor is inside `with self.lock` at line 407
LockHeld == \E r \in running : r.pc \in {"marking", "saving"}

\* Line 407: the lock is acquired
MarkAcquire(r) ==
    /\ r \in running
    /\ r.pc = "mark"
    /\ ~LockHeld
    /\ running' = (running \ {r}) \cup {[r EXCEPT !.pc = "marking"]}
    /\ UNCHANGED <<logging_enabled, cooldown_seconds, recent_violations,
                   last_cleanup_time, logged_today, daily_logs_file, disk,
                   pending_tasks, calls, queue, futures, ntasks, abandoned,
                   ret, now, today,
                   logged_persons>>

\* daily_logs.json between open(..., 'w') and the end of json.dump: the file
\* has been truncated and does not hold a JSON document
NoContent == [bytes |-> 0]

\* Lines 408-409 with 90-94 and 69: the entry is set in memory and
\* _save_daily_logs opens the ledger file for writing, which truncates it
MarkOpen(r) ==
    /\ r \in running
    /\ r.pc = "marking"
    /\ LET t == r.task
       IN  /\ logged_today' = MarkAll(logged_today, t.identified, t.items,
                                      FilePath(t), today)
           /\ daily_logs_file' = IF t.identified /= <<>> THEN NoContent
                                 ELSE daily_logs_file
    /\ running' = (running \ {r}) \cup {[r EXCEPT !.pc = "saving"]}
    /\ UNCHANGED <<logging_enabled, cooldown_seconds, recent_violations,
                   last_cleanup_time, disk, pending_tasks, calls, queue, futures,
                   ntasks, abandoned, ret, now, today,
                   logged_persons>>

\* Line 70 and the end of the `with` blocks: json.dump has written the
\* ledger, the file is closed and the lock released
MarkClose(r) ==
    /\ r \in running
    /\ r.pc = "saving"
    /\ daily_logs_file' = IF r.task.identified /= <<>> THEN logged_today
                          ELSE daily_logs_file
    /\ running' = (running \ {r}) \cup {[r EXCEPT !.pc = "audit"]}
    /\ UNCHANGED <<logging_enabled, cooldown_seconds, recent_violations,
                   last_cleanup_time, logged_today, disk, pending_tasks, calls,
                   queue, futures, ntasks, abandoned, ret, now, today,
                   logged_persons>>

\* The task's completion runs _on_task_complete, which takes the lock
CompletionTakesLock(n) == futures[n].cb

\* The rest of save_violation and the executor's threads, with the lock
PoolMutex ==
    \/ \E c \in calls : SubmitTask(c)
    \/ \E c \in calls : SubmitRaises(c)
    \/ \E c \in calls : /\ c.pc = "callback"
                        /\ futures[c.task.n].done => ~LockHeld
                        /\ AddDoneCallback(c)
    \/ \E j \in Taken :
          \E rmfail \in SUBSET PreviousPaths(logged_today, queue[j].identified) :
             /\ (queue[j].del /\ queue[j].identified /= <<>>) => ~LockHeld
             /\ WorkerDelete(j, rmfail)
    \/ \E r \in running, o \in WriteOutcomes :
          /\ (o = "raised" /\ CompletionTakesLock(r.task.n)) => ~LockHeld
          /\ WorkerWrite(r, o)
    \/ \E r \in running : MarkAcquire(r)
    \/ \E r \in running : MarkOpen(r)
    \/ \E r \in running : MarkClose(r)
    \/ \E r \in running : /\ CompletionTakesLock(r.task.n) => ~LockHeld
                          /\ WorkerComplete(r)

NextMutex ==
    \/ /\ calls = {}
       /\ ntasks < MaxLedgerTasks
       /\ ~LockHeld
       /\ \E n \in Known, i \in ItemNames : SaveViolation(Confident(n), <<i>>)
    \/ PoolMutex
    \/ EnableLogging

SpecMutex == Init /\ [][NextMutex]_vars

\* C32: the counter has a mutex of its own, so a completion callback never
\* waits for a thread that is inside a ledger update: whenever a task has
\* run to its end with its callback registered, or a caller is about to run
\* the callback of a finished task, no thread holds the lock that the
\* callback takes.
CallbackNeverWaits ==
    /\ \A r \in running :
          (r.pc = "audit" /\ CompletionTakesLock(r.task.n)) => ~LockHeld
    /\ \A c \in calls :
          (c.pc = "callback" /\ futures[c.task.n].done) => ~LockHeld

(***************************************************************************)
(* The process stops and is started again while the executor is at work    *)
(***************************************************************************)
\* The process ends at any point and a new one constructs the logger: the
\* memory of the old process is gone, the log folder is as it was left
Restart ==
    /\ logged_today' = _load_daily_logs(TRUE, daily_logs_file /= NoContent,
                                        daily_logs_file, today)
    /\ logging_enabled' = FALSE
    /\ cooldown_seconds' = DefaultCooldown
    /\ recent_violations' = EmptyMap
    /\ last_cleanup_time' = now
    /\ pending_tasks' = 0
    /\ calls' = {}
    /\ queue' = <<>>
    /\ running' = {}
    /\ futures' = EmptyMap
    /\ abandoned' = 0
    /\ ret' = [result |-> "None", reason |-> ""]
    /\ logged_persons' = {}
    /\ UNCHANGED <<daily_logs_file, disk, ntasks, now, today>>

NextSave ==
    \/ NextMutex
    \/ Restart

\* The logger constructed on a ledger file that holds Bob's entry of today
InitSave ==
    /\ logging_enabled = FALSE
    /\ cooldown_seconds = DefaultCooldown
    /\ recent_violations = EmptyMap
    /\ last_cleanup_time = 0
    /\ logged_today = "Bob" :> [date |-> 0, items |-> <<"shorts">>,
                                filepath |-> OldPath]
    /\ daily_logs_file = logged_today
    /\ disk = {OldPath}
    /\ pending_tasks = 0
    /\ calls = {}
    /\ queue = <<>>
    /\ running = {}
    /\ futures = EmptyMap
    /\ ntasks = 0
    /\ abandoned = 0
    /\ ret = NoRet
    /\ now = 0
    /\ today = 0
    /\ logged_persons = {}

SpecSave == InitSave /\ [][NextSave]_vars

\* C33: ledger persistence is atomic: at whatever point the process stops,
\* the ledger file that the restart finds is a complete ledger, the one
\* before the save in progress or the one after it, and not an empty or
\* partial file; so Bob's entry of today, which every ledger saved here
\* holds, is in the ledger that the restart loads.
LedgerSaveAtomic ==
    [][Restart => /\ daily_logs_file /= NoContent
                  /\ "Bob" \in DOMAIN logged_today']_vars

(***************************************************************************)
(* The text audit log.  _log_violation_details appends the record of the   *)
(* violation to violation_log.txt inside its own try block; here the call  *)
(* and the return of the task function are two steps, and the position of  *)
(* the thread after the call tells whether the append went through (line   *)
(* 415) or raised and was caught (line 552).                               *)
(***************************************************************************)
AuditOutcomes == {"logged", "caught"}

\* Lines 412-413 with 527-552: the record is appended, or open or a write
\* raises and the except clause of _log_violation_details logs the error
LogViolationDetails(r, outcome) ==
    /\ r \in running
    /\ r.pc = "audit"
    /\ running' = (running \ {r}) \cup {[r EXCEPT !.pc = outcome]}
    /\ UNCHANGED <<logging_enabled, cooldown_seconds, recent_violations,
                   last_cleanup_time, logged_today, daily_logs_file, disk,
                   pending_tasks, calls, queue, futures, ntasks, abandoned,
                   ret, now, today,
                   logged_persons>>

\* Lines 415-418: the task function returns and the future is set done
TaskReturn(r) ==
    /\ r \in running
    /\ r.pc \in AuditOutcomes
    /\ FutureDone(r.task.n)
    /\ running' = running \ {r}
    /\ UNCHANGED <<logging_enabled, cooldown_seconds, recent_violations,
                   last_cleanup_time, logged_today, daily_logs_file, disk, calls,
                   queue, ntasks, abandoned, ret, now, today,
                   logged_persons>>

NextAudit ==
    \/ /\ calls = {}
       /\ ntasks < MaxLedgerTasks
       /\ \E n \in Known, i \in ItemNames : SaveViolation(Confident(n), <<i>>)
    \/ \E c \in calls : SubmitTask(c)
    \/ \E c \in calls : SubmitRaises(c)
    \/ \E c \in calls : AddDoneCallback(c)
    \/ \E j \in Taken :
          \E rmfail \in SUBSET PreviousPaths(logged_today, queue[j].identified) :
             WorkerDelete(j, rmfail)
    \/ \E r \in running, o \in WriteOutcomes : WorkerWrite(r, o)
    \/ \E r \in running : WorkerMark(r)
    \/ \E r \in running, o \in AuditOutcomes : LogViolationDetails(r, o)
    \/ \E r \in running : TaskReturn(r)
    \/ EnableLogging

SpecAudit == Init /\ [][NextAudit]_vars

\* C34: a failure while appending to the text audit log is swallowed: the
\* step in which it happens leaves the evidence files and the ledger as they
\* are and the task goes on; the task then returns without raising, still
\* leaving the evidence files and the ledger, and its completion callback
\* decrements pending_tasks (at once if it is registered, and otherwise the
\* future is done and the callback runs when it is added).
AuditFailureSwallowed ==
    [][\A r \in running :
          /\ (r.pc = "audit" /\ [r EXCEPT !.pc = "caught"] \in running')
             => /\ disk' = disk
                /\ logged_today' = logged_today
                /\ daily_logs_file' = daily_logs_file
                /\ pending_tasks' = pending_tasks
          /\ (r.pc = "caught" /\ r \notin running')
             => /\ disk' = disk
                /\ logged_today' = logged_today
                /\ daily_logs_file' = daily_logs_file
                /\ IF futures[r.task.n].cb
                   THEN /\ pending_tasks' = pending_tasks - 1
                        /\ r.task.n \notin DOMAIN futures'
                   ELSE /\ pending_tasks' = pending_tasks
                        /\ futures'[r.task.n].done]_vars

\* The append has failed for a task whose image is on disk and whose
\* identity is marked with it
AuditFailedTaskIntact ==
    \E r \in running :
       /\ r.pc = "caught"
       /\ r.written
       /\ FilePath(r.task) \in disk
       /\ "Alice" \in DOMAIN logged_today
       /\ logged_today["Alice"].filepath = FilePath(r.task)
       /\ daily_logs_file = logged_today
       /\ pending_tasks >= 1

(***************************************************************************)
(* Progress.  The threads are scheduled fairly: a caller past the locked   *)
(* block or a thread of the executor that can take a step takes one.       *)
(***************************************************************************)
SpecProgress == Init /\ [][NextMutex]_vars /\ WF_vars(PoolMutex)

\* A call is between admission and return, or a task is queued or running
WorkLeft == calls /= {} \/ queue /= <<>> \/ running /= {}

\* C35: in no reachable state are all the threads that have work blocked on
\* the lock: as long as a call is in progress or a task is queued or running,
\* one of them can take a step; and with fair scheduling every task handed
\* to the executor finishes and has its completion callback run, whether it
\* finishes after the callback is attached or before.
DeadlockFreeProgress ==
    /\ [](WorkLeft => ENABLED <<PoolMutex>>_vars)
    /\ \A n \in 1..MaxLedgerTasks :
          (n \in DOMAIN futures) ~> (n \notin DOMAIN futures)

\* A caller holds the future of a task that has finished already and waits
\* for the lock to run its callback, while a thread of the executor is
\* inside the mark block
CallerWaitsForLock ==
    /\ LockHeld
    /\ \E c \in calls : c.pc = "callback" /\ futures[c.task.n].done
    /\ pending_tasks = 2

(***************************************************************************)
(* The decision and the order of the faces, under SpecPair                 *)
(***************************************************************************)
\* C36: for the same logger state and the same items, _should_log_violation
\* returns the same (should_log, should_delete_previous) for the two orders
\* of the same two faces.
DecisionOrderIndependent ==
    \A f \in PairFrames, g \in PairFrames, i \in ItemNames :
        LET df == _should_log_violation(
                      FaceNames(_filter_faces_by_confidence(f)), <<i>>,
                      logging_enabled, logged_today, recent_violations,
                      last_cleanup_time, cooldown_seconds, now, today)
            dg == _should_log_violation(
                      FaceNames(_filter_faces_by_confidence(g)), <<i>>,
                      logging_enabled, logged_today, recent_violations,
                      last_cleanup_time, cooldown_seconds, now, today)
        IN  /\ df.log = dg.log
            /\ df.del = dg.del

(***************************************************************************)
(* What a call refused by the deduplication decision leaves, under         *)
(* SpecDecide                                                              *)
(***************************************************************************)
\* C37: a save_violation call that returns false with 'Already logged today'
\* or 'Cooldown active' leaves every ledger entry dated today and every
\* cooldown record still inside the window as it was, adds no entry and no
\* record, and leaves pending_tasks unchanged; the record of a call refused
\* by the cooldown keeps the time of the last approval.
RefusalKeepsBookkeeping ==
    \A f \in FaceInputs, i \in DecideItems :
        LET sv == save_violation(f, i)
            k == KeyOf(f, i)
        IN  (\/ sv.reason = "Cooldown active"
             \/ \E p \in Known : sv.reason = "Already logged today: " \o p)
            => /\ ~sv.admitted
               /\ sv.pending = pending_tasks
               /\ DOMAIN sv.lt \subseteq DOMAIN logged_today
               /\ \A p \in DOMAIN logged_today :
                     logged_today[p].date = today
                     => /\ p \in DOMAIN sv.lt
                        /\ sv.lt[p] = logged_today[p]
               /\ DOMAIN sv.rv \subseteq DOMAIN recent_violations
               /\ \A h \in DOMAIN recent_violations :
                     now - recent_violations[h] < cooldown_seconds
                     => /\ h \in DOMAIN sv.rv
                        /\ sv.rv[h] = recent_violations[h]
               /\ sv.reason = "Cooldown active"
                  => /\ k \in DOMAIN sv.rv
                     /\ sv.rv[k] = recent_violations[k]

\* A call refused by the cooldown some time after the approval: the only
\* record in the cache is older than the call
RecordNotRefreshed ==
    /\ ret = [result |-> "false", reason |-> "Cooldown active"]
    /\ \E h \in Keys : /\ DOMAIN recent_violations = {h}
                       /\ recent_violations[h] < now
                       /\ now - recent_violations[h] < cooldown_seconds
    /\ pending_tasks = max_pending_tasks

(***************************************************************************)
(* The ledger file against the ledger in memory, under SpecDaily: the      *)
(* workers mark and delete, the lookups expire entries, the day changes    *)
(***************************************************************************)
\* The entries of lt dated day
TodayEntries(lt, day) == [p \in {q \in DOMAIN lt : lt[q].date = day} |-> lt[p]]

\* C38: after any sequence of mark and delete operations, loading the ledger
\* file on the same day gives exactly the entries of the in-memory ledger
\* that are dated today: the same identities with the same items and the
\* same evidence paths.
LedgerRoundTrip ==
    _load_daily_logs(TRUE, TRUE, daily_logs_file, today)
        = TodayEntries(logged_today, today)

\* On the second day Alice's entry has been replaced and saved, and every
\* task has finished
ReplacedEntryOnFile ==
    /\ Drained
    /\ today = 1
    /\ ntasks >= 2
    /\ "Alice" \in DOMAIN logged_today
    /\ logged_today["Alice"].date = today
    /\ logged_today["Alice"].filepath >= 2
    /\ daily_logs_file = logged_today

(***************************************************************************)
(* The face scan of the webcam loop (main.py, generate_webcam_frames).  A  *)
(* scan that finds one face handles it in the loop's thread: the session   *)
(* set logged_persons is consulted, the ledger calls are made without the  *)
(* lock, save_violation is called and the session set is updated from its  *)
(* result.  The loop scans only while logging is enabled (line 719) and    *)
(* is inside save_violation until the call returns, so the update of the   *)
(* session set is taken with the call's locked block; frame.copy() and     *)
(* executor.submit() do not raise here.                                    *)
(***************************************************************************)
MaxSessionTasks == 2

\* The faces that detect_and_identify_faces names
KnownFaces == {f \in Faces : f.name \in Known}

\* main.py 746-813: the scan has found the known face f
ScanKnown(f, items, rmfail) ==
    /\ calls = {}
    /\ logging_enabled
    /\ f.name \notin logged_persons
    /\ LET u == DeleteUnknownLogs(logged_today, disk, today,
                                  "Unknown" \in logged_persons, rmfail)
           look == _is_person_logged_today(u.lt, f.name, today)
           d == IF look.result
                THEN _delete_previous_log(look.lt, u.disk, f.name, rmfail)
                ELSE [lt |-> look.lt, disk |-> u.disk, saved |-> FALSE]
           names == FaceNames(_filter_faces_by_confidence(<<f>>))
           dec == _should_log_violation(names, items, logging_enabled, d.lt,
                                        recent_violations, last_cleanup_time,
                                        cooldown_seconds, now, today)
           admitted == dec.log /\ ~QueueFull(pending_tasks)
       IN  /\ admitted => ntasks < MaxSessionTasks
           /\ logged_today' = dec.lt
           /\ disk' = d.disk
           /\ daily_logs_file' = IF d.saved THEN d.lt
                                 ELSE IF u.saved THEN u.lt ELSE daily_logs_file
           /\ recent_violations' = dec.rv
           /\ last_cleanup_time' = dec.lct
           /\ pending_tasks' = IF admitted THEN pending_tasks + 1
                               ELSE pending_tasks
           /\ ret' = [result |-> IF admitted THEN "admitted" ELSE "false",
                      reason |-> dec.reason]
           /\ ntasks' = IF admitted THEN ntasks + 1 ELSE ntasks
           /\ calls' = IF admitted
                       THEN {[pc |-> "copy",
                              task |-> [n |-> ntasks + 1, faces |-> names,
                                        items |-> items,
                                        identified |-> NotUnknown(names),
                                        del |-> dec.del]]}
                       ELSE calls
           /\ logged_persons' = IF admitted
                                THEN (logged_persons \ {"Unknown"}) \cup {f.name}
                                ELSE logged_persons \ {"Unknown"}
    /\ UNCHANGED <<logging_enabled, cooldown_seconds, queue, running, futures,
                   abandoned, now, today>>

\* main.py 814-830: the scan has found one face and it is Unknown
ScanUnknown(f, items) ==
    /\ calls = {}
    /\ logging_enabled
    /\ f.name = "Unknown"
    /\ "Unknown" \notin logged_persons
    /\ LET sv == save_violation(<<f>>, items)
       IN  /\ sv.admitted => ntasks < MaxSessionTasks
           /\ logged_today' = sv.lt
           /\ recent_violations' = sv.rv
           /\ last_cleanup_time' = sv.lct
           /\ pending_tasks' = sv.pending
           /\ ret' = [result |-> IF sv.admitted THEN "admitted" ELSE "false",
                      reason |-> sv.reason]
           /\ ntasks' = IF sv.admitted THEN ntasks + 1 ELSE ntasks
           /\ calls' = IF sv.admitted THEN {[pc |-> "copy", task |-> sv.task]}
                       ELSE calls
    /\ logged_persons' = logged_persons \cup {"Unknown"}
    /\ UNCHANGED <<logging_enabled, cooldown_seconds, daily_logs_file, disk,
                   queue, running, futures, abandoned, now, today>>

\* main.py 663: the stream is requested again and generate_webcam_frames
\* starts with an empty session set
StreamStart ==
    /\ calls = {}
    /\ logged_persons /= {}
    /\ logged_persons' = {}
    /\ UNCHANGED <<logging_enabled, cooldown_seconds, recent_violations,
                   last_cleanup_time, logged_today, daily_logs_file, disk,
                   pending_tasks, calls, queue, running, futures, ntasks,
                   abandoned, ret, now, today>>

NextSession ==
    \/ \E f \in KnownFaces, i \in ItemNames :
          \E rmfail \in SUBSET PreviousPaths(logged_today, <<f.name, "Unknown">>) :
             ScanKnown(f, <<i>>, rmfail)
    \/ \E f \in Faces, i \in ItemNames : ScanUnknown(f, <<i>>)
    \/ StreamStart
    \/ \E c \in calls : SubmitTask(c)
    \/ \E c \in calls : AddDoneCallback(c)
    \/ \E j \in Taken :
          \E rmfail \in SUBSET PreviousPaths(logged_today, queue[j].identified) :
             WorkerDelete(j, rmfail)
    \/ \E r \in running, o \in WriteOutcomes : WorkerWrite(r, o)
    \/ \E r \in running : WorkerMark(r)
    \/ \E r \in running : WorkerComplete(r)
    \/ EnableLogging
    \/ Tick

SpecSession == Init /\ [][NextSession]_vars

\* C39: a known person with a record of today never ends up without one:
\* whenever the scan handles a known face whose identity is logged today,
\* and so deletes the previous entry and evidence, the save_violation call
\* that follows is accepted.
ReplacementAccepted ==
    [][\A f \in KnownFaces, i \in ItemNames :
          \A rmfail \in SUBSET disk :
             (LoggedToday(f.name) /\ ScanKnown(f, <<i>>, rmfail))
             => ret'.result = "admitted"]_vars

\* C40: the loop adds an identity to logged_persons only when save_violation
\* has returned true for it.
SessionOnlyWhenSaved ==
    [][\A p \in Names :
          (p \in logged_persons' /\ p \notin logged_persons)
          => ret'.result = "admitted"]_vars

====
